---- MODULE Spec2Model ----
(***************************************************************************)
(* The export pipeline of src-tauri/src/main.rs (export_video): tool       *)
(* lookup, scratch directory, one trim process per clip, progress events,  *)
(* the concat manifest, the final mux, cleanup and the 100% event.         *)
(*                                                                         *)
(* One run of export_video is modelled step by step; the outcome of every  *)
(* call into the environment (filesystem, external process, event emit)    *)
(* is a nondeterministic choice among the results the call can return.     *)
(***************************************************************************)
EXTENDS Integers, Sequences, FiniteSets, TLC

\* ---------------------------------------------------------------- bounds
\* requests with arbitrary clip ranges have at most MaxClips clips
MaxClips == 2
\* start_time and end_time range over 0..MaxTime
MaxTime == 1
\* requests whose clips all have a valid range have at most MaxLongClips clips
MaxLongClips == 50
\* an earlier run left at most MaxStale segment files behind
MaxStale == 3

\* ------------------------------------------------- f64 arithmetic (line 82)
\* An f64 significand has 53 bits: a leading bit and 52 fraction bits, kept
\* here as four limbs of 13 bits so that every intermediate fits an integer.
Limb == 2^13

\* A positive f64 is [top, limbs, exp] with value
\*   (top + (limbs[1]*Limb^3 + limbs[2]*Limb^2 + limbs[3]*Limb + limbs[4]) / 2^52) * 2^exp

RECURSIVE ScaleUp(_, _, _)
\* <<num * 2^s, sh + s>> for the least s with num * 2^s >= den
ScaleUp(num, den, sh) ==
    IF num >= den THEN <<num, sh>> ELSE ScaleUp(2 * num, den, sh + 1)

\* k as f64 / d as f64 for integers 1 <= k <= d: the quotient rounded to
\* nearest, ties to even, at 53 significant bits
F64Div(k, d) ==
    LET sc  == ScaleUp(k, d, 0)
        r0  == sc[1] - d
        q1  == (r0 * Limb) \div d
        r1  == (r0 * Limb) % d
        q2  == (r1 * Limb) \div d
        r2  == (r1 * Limb) % d
        q3  == (r2 * Limb) \div d
        r3  == (r2 * Limb) % d
        q4  == (r3 * Limb) \div d
        r4  == (r3 * Limb) % d
        rnd == IF 2 * r4 > d \/ (2 * r4 = d /\ q4 % 2 = 1) THEN 1 ELSE 0
        s4  == q4 + rnd
        s3  == q3 + s4 \div Limb
        s2  == q2 + s3 \div Limb
        s1  == q1 + s2 \div Limb
    IN  IF s1 \div Limb = 1
        THEN [top |-> 1, limbs |-> <<0, 0, 0, 0>>, exp |-> 1 - sc[2]]
        ELSE [top |-> 1, limbs |-> <<s1 % Limb, s2 % Limb, s3 % Limb, s4 % Limb>>,
              exp |-> 0 - sc[2]]

\* number of bits of a positive integer below Limb
BitLen(v) == CHOOSE b \in 1..13 : 2^(b - 1) <= v /\ v < 2^b

\* x * c for a normalised f64 x (top = 1) and an integer constant 1 <= c < 2^12:
\* the exact product rounded to nearest, ties to even, at 53 significant bits
F64Mul(x, c) ==
    LET t4   == x.limbs[4] * c
        t3   == x.limbs[3] * c + t4 \div Limb
        t2   == x.limbs[2] * c + t3 \div Limb
        t1   == x.limbs[1] * c + t2 \div Limb
        top  == c + t1 \div Limb
        drop == BitLen(top) - 1
        p4   == t4 % Limb
        low  == p4 % (2^drop)
        last == (p4 \div (2^drop)) % 2
        rnd  == IF drop > 0 /\ (2 * low > 2^drop \/ (2 * low = 2^drop /\ last = 1))
                THEN 2^drop ELSE 0
        u4   == p4 - low + rnd
        u3   == (t3 % Limb) + (u4 \div Limb)
        u2   == (t2 % Limb) + (u3 \div Limb)
        u1   == (t1 % Limb) + (u2 \div Limb)
    IN  [top |-> top + u1 \div Limb,
         limbs |-> <<u1 % Limb, u2 % Limb, u3 % Limb, u4 % Limb>>,
         exp |-> x.exp]

\* x as u8 for a positive f64 with exp <= 0: truncation toward zero,
\* saturating at u8::MAX
F64AsU8(x) ==
    LET v == x.top \div (2^(0 - x.exp))
    IN  IF v > 255 THEN 255 ELSE v

\* the percentage left unscaled: the quotient times 100
ProgressUnscaled(completed, total) ==
    F64AsU8(F64Mul(F64Div(completed, total + 1), 100))

\* the percentage of the clips done on the full scale
ProgressOfTotal(completed, total) ==
    F64AsU8(F64Mul(F64Div(completed, total), 100))

\* the exact quotient rounded to the nearest integer
ProgressRounded(completed, total) ==
    (100 * completed + total + 1) \div (2 * (total + 1))

\* line 82 with completed = i + 1 and total = total_clips:
\*   ((i + 1) as f64 / (total_clips + 1) as f64 * 50.0) as u8
Progress(completed, total) == F64AsU8(F64Mul(F64Div(completed, total + 1), 50))

\* ------------------------------------------------------------------ state
VARIABLES
    clips,            \* the request: sequence of ClipData (start_time, end_time)
    ffmpeg_path,      \* outcome of resolving bin/ffmpeg.exe: "resolve_err", "absent", "present"
    temp_dir_utf8,    \* whether paths under temp_dir convert with to_str()
    pc,               \* position of the run inside export_video
    i,                \* index of the trim loop
    concat_content,   \* the in-memory manifest: one line per trimmed clip
    temp_dir_exists,  \* the directory <temp>/rvj_export exists
    segments,         \* indices k whose file clip_k.ts is in temp_dir
    concat_file,      \* concat.txt in temp_dir: [exists, lines]
    output_written,   \* the mux has written output_path
    log,              \* calls into the environment made so far, in order
    result,           \* what export_video returned
    output_dir_exists,\* the parent directory of output_path exists
    own_segments,     \* the files clip_k.ts last written by this run
    other_segments,   \* the files clip_k.ts last written by the other invocation
    concat_writer,    \* who created the concat.txt now in temp_dir
    other             \* a second invocation of export_video in flight: [pc, i, total]

vars == <<clips, ffmpeg_path, temp_dir_utf8, pc, i, concat_content,
          temp_dir_exists, segments, concat_file, output_written, log, result,
          output_dir_exists, own_segments, other_segments, concat_writer, other>>

\* struct ClipData; file_path only travels to the trim process, whose exit
\* status is chosen by the environment
ClipData == [start_time : 0..MaxTime, end_time : 0..MaxTime]

ValidClip == [start_time |-> 0, end_time |-> 1]

\* every short sequence of clips
ShortRequests == UNION {[1..len -> ClipData] : len \in 0..MaxClips}

\* the requests explored: every short sequence of clips, and longer
\* sequences of clips with a valid range
Requests ==
    ShortRequests
    \cup {[j \in 1..len |-> ValidClip] : len \in 1..MaxLongClips}

\* let total_clips = clips.len();
total_clips == Len(clips)

NoFile == [exists |-> FALSE, lines |-> <<>>]

\* Result<String, String>, with the clip index an error message carries
NoResult == [tag |-> "none", msg |-> "", index |-> -1]
Ok == [tag |-> "Ok", msg |-> "output_path", index |-> -1]
Err(msg, index) == [tag |-> "Err", msg |-> msg, index |-> index]
\* a failed unwrap() unwinds the command: nothing is returned
Panic(msg) == [tag |-> "panic", msg |-> msg, index |-> -1]

Event(ev, arg, res) == [ev |-> ev, arg |-> arg, res |-> res]

\* exit of a Command::status() call: spawn error, non-zero status, zero status
StatusOutcomes == {"io_err", "nonzero", "ok"}

\* no second invocation
NoOther == [pc |-> "off", i |-> 0, total |-> 0]

\* format!("file '{}'\n", trimmed_path...) with trimmed_path = temp_dir/clip_{k}.ts
ConcatLineOneBased(k) == <<"file", "rvj_export", "clip", k + 1, "ts">>

ConcatLine(k) == <<"file", "rvj_export", "clip", k, "ts">>

\* what is fixed when export_video is invoked
InitRun ==
    /\ ffmpeg_path \in {"resolve_err", "absent", "present"}
    /\ temp_dir_utf8 \in BOOLEAN
    /\ output_dir_exists \in BOOLEAN
    /\ pc = "resolve"
    /\ i = 0
    /\ concat_content = <<>>
    /\ output_written = FALSE
    /\ log = <<>>
    /\ result = NoResult
    /\ own_segments = {}
    /\ other_segments = {}

\* one invocation; the scratch directory is absent, or present and empty
Init ==
    /\ InitRun
    /\ clips \in Requests
    /\ temp_dir_exists \in BOOLEAN
    /\ segments = {}
    /\ concat_file = NoFile
    /\ concat_writer = "none"
    /\ other = NoOther

\* one invocation that finds the scratch directory of an earlier run that
\* was not cleaned up: its segment files and its manifest are still there
InitStale ==
    /\ InitRun
    /\ clips \in ShortRequests
    /\ temp_dir_exists = TRUE
    /\ \E old \in 1..MaxStale :
         /\ segments = 0..(old - 1)
         /\ concat_file = [exists |-> TRUE, lines |-> [j \in 1..old |-> ConcatLine(j - 1)]]
    /\ concat_writer = "stale"
    /\ other = NoOther

\* two invocations in flight: the second one has resolved the tool and is
\* about to look at the scratch directory
InitConc ==
    /\ InitRun
    /\ clips \in ShortRequests
    /\ temp_dir_exists \in BOOLEAN
    /\ segments = {}
    /\ concat_file = NoFile
    /\ concat_writer = "none"
    /\ \E n \in 1..MaxClips : other = [pc |-> "mkdir", i |-> 0, total |-> n]

\* return Err(..) / a `?` that propagates an error
Return(r) ==
    /\ pc' = "returned"
    /\ result' = r

\* a panicking unwrap()
Unwind(msg) ==
    /\ pc' = "panicked"
    /\ result' = Panic(msg)

\* for (i, clip) in clips.iter().enumerate(): the loop runs its body for
\* index k when there is a clip k, and falls through to step 4 otherwise
LoopNextSkipLast(k) == IF k + 1 < total_clips THEN "trim" ELSE "create_concat"

LoopNext(k) == IF k < total_clips THEN "trim" ELSE "create_concat"

\* 1. Resolve FFmpeg path
ResolveNoCheck ==
    /\ pc = "resolve"
    /\ IF ffmpeg_path = "resolve_err"
       THEN Return(Err("Failed to resolve FFmpeg path", -1))
       ELSE pc' = "mkdir" /\ UNCHANGED result
    /\ UNCHANGED <<clips, ffmpeg_path, temp_dir_utf8, i, concat_content,
                   temp_dir_exists, segments, concat_file, output_written, log>>
    /\ UNCHANGED <<output_dir_exists, own_segments, other_segments, concat_writer, other>>

Resolve ==
    /\ pc = "resolve"
    /\ CASE ffmpeg_path = "resolve_err" ->
              Return(Err("Failed to resolve FFmpeg path", -1))
         [] ffmpeg_path = "absent" ->
              Return(Err("FFmpeg binary not found", -1))
         [] ffmpeg_path = "present" ->
              pc' = "mkdir" /\ UNCHANGED result
    /\ UNCHANGED <<clips, ffmpeg_path, temp_dir_utf8, i, concat_content,
                   temp_dir_exists, segments, concat_file, output_written, log>>
    /\ UNCHANGED <<output_dir_exists, own_segments, other_segments, concat_writer, other>>

\* create_dir_all without the exists() test in front of it
CreateTempDirExclusive ==
    /\ pc = "mkdir"
    /\ \/ /\ ~temp_dir_exists
          /\ temp_dir_exists' = TRUE
          /\ log' = Append(log, Event("create_dir_all", 0, "ok"))
          /\ pc' = LoopNext(0)
          /\ UNCHANGED result
       \/ /\ log' = Append(log, Event("create_dir_all", 0, "fail"))
          /\ Return(Err("Failed to create temp dir", -1))
          /\ UNCHANGED temp_dir_exists
    /\ i' = 0
    /\ concat_content' = <<>>
    /\ UNCHANGED <<clips, ffmpeg_path, temp_dir_utf8, segments, concat_file,
                   output_written>>
    /\ UNCHANGED <<output_dir_exists, own_segments, other_segments, concat_writer, other>>

\* 2. Create temp directory for intermediate clips; then lines 49-50 and
\* the entry of the loop
CreateTempDir ==
    /\ pc = "mkdir"
    /\ \/ /\ temp_dir_exists
          /\ pc' = LoopNext(0)
          /\ UNCHANGED <<temp_dir_exists, log, result>>
       \/ /\ ~temp_dir_exists
          /\ temp_dir_exists' = TRUE
          /\ log' = Append(log, Event("create_dir_all", 0, "ok"))
          /\ pc' = LoopNext(0)
          /\ UNCHANGED result
       \/ /\ ~temp_dir_exists
          /\ log' = Append(log, Event("create_dir_all", 0, "fail"))
          /\ Return(Err("Failed to create temp dir", -1))
          /\ UNCHANGED temp_dir_exists
    /\ i' = 0
    /\ concat_content' = <<>>
    /\ UNCHANGED <<clips, ffmpeg_path, temp_dir_utf8, segments, concat_file,
                   output_written>>
    /\ UNCHANGED <<output_dir_exists, own_segments, other_segments, concat_writer, other>>

\* format!("FFmpeg trim exited with error for clip {}", i)
TrimExitErrOneBased(k) == Err("FFmpeg trim exited with error for clip", k + 1)

TrimExitErr(k) == Err("FFmpeg trim exited with error for clip", k)

\* the loop body without the test of status.success()
TrimIgnoreStatus ==
    /\ pc = "trim"
    /\ \/ /\ ~temp_dir_utf8
          /\ Return(Err("Invalid path", -1))
          /\ UNCHANGED <<log, segments, concat_content, own_segments, other_segments>>
       \/ /\ temp_dir_utf8
          /\ \E status \in StatusOutcomes :
               /\ log' = Append(log, Event("trim", i, status))
               /\ CASE status = "io_err" ->
                         /\ Return(Err("FFmpeg trim failed", -1))
                         /\ UNCHANGED <<segments, concat_content, own_segments, other_segments>>
                    [] status = "nonzero" ->
                         /\ concat_content' = Append(concat_content, ConcatLine(i))
                         /\ pc' = "emit"
                         /\ UNCHANGED <<result, segments, own_segments, other_segments>>
                    [] status = "ok" ->
                         /\ temp_dir_exists
                         /\ segments' = segments \cup {i}
                         /\ own_segments' = own_segments \cup {i}
                         /\ other_segments' = other_segments \ {i}
                         /\ concat_content' = Append(concat_content, ConcatLine(i))
                         /\ pc' = "emit"
                         /\ UNCHANGED result
    /\ UNCHANGED <<clips, ffmpeg_path, temp_dir_utf8, i, temp_dir_exists,
                   concat_file, output_written>>
    /\ UNCHANGED <<output_dir_exists, concat_writer, other>>

\* 3. Trim clip i: lines 54-79; the process writes clip_i.ts over whatever
\* file of that name is there (-y), which needs the directory
Trim ==
    /\ pc = "trim"
    /\ \/ /\ ~temp_dir_utf8
          /\ Return(Err("Invalid path", -1))
          /\ UNCHANGED <<log, segments, concat_content, own_segments, other_segments>>
       \/ /\ temp_dir_utf8
          /\ \E status \in StatusOutcomes :
               /\ log' = Append(log, Event("trim", i, status))
               /\ CASE status = "io_err" ->
                         /\ Return(Err("FFmpeg trim failed", -1))
                         /\ UNCHANGED <<segments, concat_content, own_segments, other_segments>>
                    [] status = "nonzero" ->
                         /\ Return(TrimExitErr(i))
                         /\ UNCHANGED <<segments, concat_content, own_segments, other_segments>>
                    [] status = "ok" ->
                         /\ temp_dir_exists
                         /\ segments' = segments \cup {i}
                         /\ own_segments' = own_segments \cup {i}
                         /\ other_segments' = other_segments \ {i}
                         /\ concat_content' = Append(concat_content, ConcatLine(i))
                         /\ pc' = "emit"
                         /\ UNCHANGED result
    /\ UNCHANGED <<clips, ffmpeg_path, temp_dir_utf8, i, temp_dir_exists,
                   concat_file, output_written>>
    /\ UNCHANGED <<output_dir_exists, concat_writer, other>>

\* Emit progress: lines 82-83, and the step of the loop to the next clip
EmitProgress ==
    /\ pc = "emit"
    /\ LET progress == Progress(i + 1, total_clips) IN
       \/ /\ log' = Append(log, Event("emit", progress, "ok"))
          /\ i' = i + 1
          /\ pc' = LoopNext(i + 1)
          /\ UNCHANGED result
       \/ /\ log' = Append(log, Event("emit", progress, "fail"))
          /\ Unwind("emit")
          /\ UNCHANGED i
    /\ UNCHANGED <<clips, ffmpeg_path, temp_dir_utf8, concat_content,
                   temp_dir_exists, segments, concat_file, output_written>>
    /\ UNCHANGED <<output_dir_exists, own_segments, other_segments, concat_writer, other>>

\* 4. Create concat file: line 88; File::create truncates a file that exists
CreateConcat ==
    /\ pc = "create_concat"
    /\ \/ /\ temp_dir_exists
          /\ log' = Append(log, Event("create_concat", 0, "ok"))
          /\ concat_file' = [exists |-> TRUE, lines |-> <<>>]
          /\ concat_writer' = "self"
          /\ pc' = "write_concat"
          /\ UNCHANGED result
       \/ /\ log' = Append(log, Event("create_concat", 0, "fail"))
          /\ Return(Err("Failed to create concat file", -1))
          /\ UNCHANGED <<concat_file, concat_writer>>
    /\ UNCHANGED <<clips, ffmpeg_path, temp_dir_utf8, i, concat_content,
                   temp_dir_exists, segments, output_written>>
    /\ UNCHANGED <<output_dir_exists, own_segments, other_segments, other>>

\* what write_all leaves in temp_dir/concat.txt: the bytes reach the file
\* this run created, if that is still the file of that name
Written(content) ==
    IF concat_file.exists /\ concat_writer = "self"
    THEN [exists |-> TRUE, lines |-> content]
    ELSE concat_file

\* line 89 with the error of write_all dropped
WriteConcatIgnoreError ==
    /\ pc = "write_concat"
    /\ \/ /\ log' = Append(log, Event("write_concat", 0, "ok"))
          /\ concat_file' = Written(concat_content)
       \/ /\ log' = Append(log, Event("write_concat", 0, "fail"))
          /\ UNCHANGED concat_file
    /\ pc' = "mux"
    /\ UNCHANGED <<clips, ffmpeg_path, temp_dir_utf8, i, concat_content,
                   temp_dir_exists, segments, output_written, result>>
    /\ UNCHANGED <<output_dir_exists, own_segments, other_segments, concat_writer, other>>

\* line 89
WriteConcat ==
    /\ pc = "write_concat"
    /\ \/ /\ log' = Append(log, Event("write_concat", 0, "ok"))
          /\ concat_file' = Written(concat_content)
          /\ pc' = "mux"
          /\ UNCHANGED result
       \/ /\ log' = Append(log, Event("write_concat", 0, "fail"))
          /\ Return(Err("Failed to write concat file", -1))
          /\ UNCHANGED concat_file
    /\ UNCHANGED <<clips, ffmpeg_path, temp_dir_utf8, i, concat_content,
                   temp_dir_exists, segments, output_written>>
    /\ UNCHANGED <<output_dir_exists, own_segments, other_segments, concat_writer, other>>

\* the mux process can exit zero only if it can read the manifest and every
\* segment the manifest names, and can create output_path
MuxCanSucceed ==
    /\ concat_file.exists
    /\ \A j \in 1..Len(concat_file.lines) : concat_file.lines[j][4] \in segments
    /\ output_dir_exists

\* 5. Final concatenation with audio: lines 93-113
MuxIgnoreStatus ==
    /\ pc = "mux"
    /\ \/ /\ ~temp_dir_utf8
          /\ Unwind("concat_file_path")
          /\ UNCHANGED <<log, output_written>>
       \/ /\ temp_dir_utf8
          /\ \E status \in StatusOutcomes :
               /\ log' = Append(log, Event("mux", 0, status))
               /\ CASE status = "io_err" ->
                         /\ Return(Err("FFmpeg final concat failed", -1))
                         /\ UNCHANGED output_written
                    [] status = "nonzero" ->
                         /\ pc' = "cleanup"
                         /\ UNCHANGED <<result, output_written>>
                    [] status = "ok" ->
                         /\ MuxCanSucceed
                         /\ output_written' = TRUE
                         /\ pc' = "cleanup"
                         /\ UNCHANGED result
    /\ UNCHANGED <<clips, ffmpeg_path, temp_dir_utf8, i, concat_content,
                   temp_dir_exists, segments, concat_file>>
    /\ UNCHANGED <<output_dir_exists, own_segments, other_segments, concat_writer, other>>

\* step 5 going to the 100% event without step 6
MuxSkipCleanup ==
    /\ pc = "mux"
    /\ \/ /\ ~temp_dir_utf8
          /\ Unwind("concat_file_path")
          /\ UNCHANGED <<log, output_written>>
       \/ /\ temp_dir_utf8
          /\ \E status \in StatusOutcomes :
               /\ log' = Append(log, Event("mux", 0, status))
               /\ CASE status = "io_err" ->
                         /\ Return(Err("FFmpeg final concat failed", -1))
                         /\ UNCHANGED output_written
                    [] status = "nonzero" ->
                         /\ Return(Err("FFmpeg final concat exited with error", -1))
                         /\ UNCHANGED output_written
                    [] status = "ok" ->
                         /\ MuxCanSucceed
                         /\ output_written' = TRUE
                         /\ pc' = "emit_done"
                         /\ UNCHANGED result
    /\ UNCHANGED <<clips, ffmpeg_path, temp_dir_utf8, i, concat_content,
                   temp_dir_exists, segments, concat_file>>
    /\ UNCHANGED <<output_dir_exists, own_segments, other_segments, concat_writer, other>>

Mux ==
    /\ pc = "mux"
    /\ \/ /\ ~temp_dir_utf8
          /\ Unwind("concat_file_path")
          /\ UNCHANGED <<log, output_written>>
       \/ /\ temp_dir_utf8
          /\ \E status \in StatusOutcomes :
               /\ log' = Append(log, Event("mux", 0, status))
               /\ CASE status = "io_err" ->
                         /\ Return(Err("FFmpeg final concat failed", -1))
                         /\ UNCHANGED output_written
                    [] status = "nonzero" ->
                         /\ Return(Err("FFmpeg final concat exited with error", -1))
                         /\ UNCHANGED output_written
                    [] status = "ok" ->
                         /\ MuxCanSucceed
                         /\ output_written' = TRUE
                         /\ pc' = "cleanup"
                         /\ UNCHANGED result
    /\ UNCHANGED <<clips, ffmpeg_path, temp_dir_utf8, i, concat_content,
                   temp_dir_exists, segments, concat_file>>
    /\ UNCHANGED <<output_dir_exists, own_segments, other_segments, concat_writer, other>>

\* remove_dir_all(&temp_dir) succeeding: the directory and all in it is gone
RemoveDirAll ==
    /\ temp_dir_exists' = FALSE
    /\ segments' = {}
    /\ own_segments' = {}
    /\ other_segments' = {}
    /\ concat_file' = NoFile
    /\ concat_writer' = "none"

\* step 6 with the error of remove_dir_all propagated
CleanupEscalates ==
    /\ pc = "cleanup"
    /\ \/ /\ log' = Append(log, Event("remove_dir_all", 0, "ok"))
          /\ RemoveDirAll
          /\ pc' = "emit_done"
          /\ UNCHANGED result
       \/ /\ log' = Append(log, Event("remove_dir_all", 0, "fail"))
          /\ Return(Err("Failed to remove temp dir", -1))
          /\ UNCHANGED <<temp_dir_exists, segments, concat_file, own_segments,
                         other_segments, concat_writer>>
    /\ UNCHANGED <<clips, ffmpeg_path, temp_dir_utf8, i, concat_content,
                   output_written>>
    /\ UNCHANGED <<output_dir_exists, other>>

\* 6. Cleanup: let _ = std::fs::remove_dir_all(&temp_dir);
Cleanup ==
    /\ pc = "cleanup"
    /\ \/ /\ log' = Append(log, Event("remove_dir_all", 0, "ok"))
          /\ RemoveDirAll
       \/ /\ log' = Append(log, Event("remove_dir_all", 0, "fail"))
          /\ UNCHANGED <<temp_dir_exists, segments, concat_file, own_segments,
                         other_segments, concat_writer>>
    /\ pc' = "emit_done"
    /\ UNCHANGED <<clips, ffmpeg_path, temp_dir_utf8, i, concat_content,
                   output_written, result>>
    /\ UNCHANGED <<output_dir_exists, other>>

\* lines 118-120: the 100% event, then Ok(output_path)
EmitDone ==
    /\ pc = "emit_done"
    /\ \/ /\ log' = Append(log, Event("emit", 100, "ok"))
          /\ Return(Ok)
       \/ /\ log' = Append(log, Event("emit", 100, "fail"))
          /\ Unwind("emit")
    /\ UNCHANGED <<clips, ffmpeg_path, temp_dir_utf8, i, concat_content,
                   temp_dir_exists, segments, concat_file, output_written>>
    /\ UNCHANGED <<output_dir_exists, own_segments, other_segments, concat_writer, other>>

Next ==
    \/ Resolve
    \/ CreateTempDir
    \/ Trim
    \/ EmitProgress
    \/ CreateConcat
    \/ WriteConcat
    \/ Mux
    \/ Cleanup
    \/ EmitDone

Spec == Init /\ [][Next]_vars

\* the same code started over the scratch directory of an earlier run
SpecStale == InitStale /\ [][Next]_vars

\* ------------------------------------ a second invocation of export_video
\* The same code run by another invocation of the command, which the host
\* starts asynchronously; only what it does to the shared scratch directory
\* <temp>/rvj_export is kept: its events and its result are left out.
selfVars == <<clips, ffmpeg_path, temp_dir_utf8, pc, i, concat_content,
              output_written, log, result, output_dir_exists>>

\* the other invocation gives up: an early return or a panic
OtherStops == other' = [other EXCEPT !.pc = "done"]

\* lines 44-47 of the other invocation
OtherCreateTempDir ==
    /\ other.pc = "mkdir"
    /\ \/ /\ temp_dir_exists
          /\ other' = [other EXCEPT !.pc = "trim"]
          /\ UNCHANGED temp_dir_exists
       \/ /\ ~temp_dir_exists
          /\ temp_dir_exists' = TRUE
          /\ other' = [other EXCEPT !.pc = "trim"]
       \/ /\ ~temp_dir_exists
          /\ OtherStops
          /\ UNCHANGED temp_dir_exists
    /\ UNCHANGED <<selfVars, segments, concat_file, own_segments, other_segments,
                   concat_writer>>

\* lines 53-84 of the other invocation: its trim of clip other.i writes
\* clip_{other.i}.ts in the same directory
OtherTrim ==
    /\ other.pc = "trim"
    /\ \/ /\ temp_dir_exists
          /\ segments' = segments \cup {other.i}
          /\ other_segments' = other_segments \cup {other.i}
          /\ own_segments' = own_segments \ {other.i}
          /\ other' = [other EXCEPT !.i = other.i + 1,
                                    !.pc = IF other.i + 1 < other.total
                                           THEN "trim" ELSE "create_concat"]
       \/ /\ OtherStops
          /\ UNCHANGED <<segments, other_segments, own_segments>>
    /\ UNCHANGED <<selfVars, temp_dir_exists, concat_file, concat_writer>>

\* line 88 of the other invocation
OtherCreateConcat ==
    /\ other.pc = "create_concat"
    /\ \/ /\ temp_dir_exists
          /\ concat_file' = [exists |-> TRUE, lines |-> <<>>]
          /\ concat_writer' = "other"
          /\ other' = [other EXCEPT !.pc = "write_concat"]
       \/ /\ OtherStops
          /\ UNCHANGED <<concat_file, concat_writer>>
    /\ UNCHANGED <<selfVars, temp_dir_exists, segments, own_segments, other_segments>>

\* line 89 of the other invocation
OtherWriteConcat ==
    /\ other.pc = "write_concat"
    /\ \/ /\ concat_file' =
               IF concat_file.exists /\ concat_writer = "other"
               THEN [exists |-> TRUE, lines |-> [j \in 1..other.total |-> ConcatLine(j - 1)]]
               ELSE concat_file
          /\ other' = [other EXCEPT !.pc = "mux"]
       \/ /\ OtherStops
          /\ UNCHANGED concat_file
    /\ UNCHANGED <<selfVars, temp_dir_exists, segments, own_segments, other_segments,
                   concat_writer>>

\* lines 93-113 of the other invocation
OtherMux ==
    /\ other.pc = "mux"
    /\ \/ other' = [other EXCEPT !.pc = "cleanup"]
       \/ OtherStops
    /\ UNCHANGED <<selfVars, temp_dir_exists, segments, concat_file, own_segments,
                   other_segments, concat_writer>>

\* lines 116-120 of the other invocation
OtherCleanup ==
    /\ other.pc = "cleanup"
    /\ \/ RemoveDirAll
       \/ UNCHANGED <<temp_dir_exists, segments, concat_file, own_segments,
                      other_segments, concat_writer>>
    /\ other' = [other EXCEPT !.pc = "done"]
    /\ UNCHANGED selfVars

NextConc ==
    \/ Resolve
    \/ CreateTempDir
    \/ Trim
    \/ EmitProgress
    \/ CreateConcat
    \/ WriteConcat
    \/ Mux
    \/ Cleanup
    \/ EmitDone
    \/ OtherCreateTempDir
    \/ OtherTrim
    \/ OtherCreateConcat
    \/ OtherWriteConcat
    \/ OtherMux
    \/ OtherCleanup

\* two invocations of export_video in flight at the same time
SpecConc == InitConc /\ [][NextConc]_vars

\* ------------------------------------------------------------ observations
IsSpawn(e) == e.ev \in {"trim", "mux"}
IsStage(e) == e.ev \in {"create_dir_all", "trim", "create_concat", "write_concat", "mux"}
\* the external processes started so far, in order
Spawns == SelectSeq(log, IsSpawn)
IsEmitted(e) == e.ev = "emit" /\ e.res = "ok"
\* the progress events delivered so far, in order
Emitted == SelectSeq(log, IsEmitted)
ToolErrors == {"Failed to resolve FFmpeg path", "FFmpeg binary not found"}
HasInvalidRange == \E j \in 1..Len(clips) : clips[j].end_time <= clips[j].start_time

\* ------------------------------------------------------------------ claims

\* C1: once export() has returned from a run that got past the tool lookup,
\* the scratch directory does not exist (leaving aside a failed delete),
\* whether the run succeeded or failed.
C1_WorkspaceGoneOnReturn ==
    (/\ pc = "returned"
     /\ result.msg \notin ToolErrors
     /\ \A p \in 1..Len(log) : log[p] # Event("remove_dir_all", 0, "fail"))
    => ~temp_dir_exists

\* C2: external processes start in the order trim 0, trim 1, ..., trim N-1,
\* mux; the mux starts only after all N trims exited zero, and a run that
\* returns the output path started exactly N trims and one mux.
C2_TrimsInOrderThenMux ==
    /\ \A p \in 1..Len(Spawns) :
         /\ Spawns[p].ev = "trim" => Spawns[p].arg = p - 1 /\ p <= total_clips
         /\ Spawns[p].ev = "mux" =>
              /\ p = total_clips + 1
              /\ \A j \in 1..total_clips : Spawns[j] = Event("trim", j - 1, "ok")
    /\ result.tag = "Ok" =>
         /\ Len(Spawns) = total_clips + 1
         /\ Spawns[total_clips + 1] = Event("mux", 0, "ok")

C2_Witness ==
    /\ result.tag = "Ok"
    /\ total_clips = 2
    /\ Spawns = <<Event("trim", 0, "ok"), Event("trim", 1, "ok"), Event("mux", 0, "ok")>>

\* C3: a request with a clip whose end_time <= start_time starts no
\* external process and, once returned, has failed.
C3_InvalidRangeRejected ==
    HasInvalidRange => Spawns = <<>> /\ (pc = "returned" => result.tag = "Err")

\* C4: a request without clips starts no external process and never
\* returns the output path.
C4_EmptyRejected ==
    total_clips = 0 => Spawns = <<>> /\ result.tag # "Ok"

\* C5: when the resolved tool path does not exist the run returns the
\* not-found error at once, having made no call into the environment (no
\* directory created, no file written, no process, no event).
C5_ToolNotFound ==
    /\ (ffmpeg_path = "absent" /\ pc # "resolve") =>
         /\ pc = "returned"
         /\ result = Err("FFmpeg binary not found", -1)
    /\ result.msg = "FFmpeg binary not found" =>
         /\ log = <<>>
         /\ segments = {}
         /\ ~concat_file.exists
         /\ ~output_written

C5_Witness ==
    /\ ffmpeg_path = "absent"
    /\ pc = "returned"
    /\ ~temp_dir_exists
    /\ total_clips = 2

\* C6: a trim that exits non-zero is the last call of the run: the run
\* returns the error carrying that clip's index, the earlier trims were
\* 0..i-1 and succeeded, and no manifest is created or written and no mux
\* started.
C6_TrimFailure ==
    \A p \in 1..Len(log) :
        (log[p].ev = "trim" /\ log[p].res = "nonzero") =>
            /\ p = Len(log)
            /\ pc = "returned"
            /\ result = Err("FFmpeg trim exited with error for clip", log[p].arg)
            /\ Len(Spawns) = log[p].arg + 1
            /\ \A j \in 1..log[p].arg : Spawns[j] = Event("trim", j - 1, "ok")
            /\ \A q \in 1..Len(log) :
                 log[q].ev \notin {"create_concat", "write_concat", "mux"}
            /\ ~concat_file.exists

C6_Witness ==
    /\ pc = "returned"
    /\ total_clips = 2
    /\ result = Err("FFmpeg trim exited with error for clip", 1)
    /\ Spawns = <<Event("trim", 0, "ok"), Event("trim", 1, "nonzero")>>

\* C7: the output path is returned only when the workspace step, all N
\* trims, the manifest and the mux succeeded; a failed stage is the last
\* call of the run, which then returns an error; no stage runs twice.
C7_AllOrNothing ==
    /\ result.tag = "Ok" =>
         /\ \A p \in 1..Len(log) : IsStage(log[p]) => log[p].res = "ok"
         /\ \A j \in 1..total_clips : \E p \in 1..Len(log) : log[p] = Event("trim", j - 1, "ok")
         /\ \E p \in 1..Len(log) : log[p] = Event("create_concat", 0, "ok")
         /\ \E p \in 1..Len(log) : log[p] = Event("write_concat", 0, "ok")
         /\ \E p \in 1..Len(log) : log[p] = Event("mux", 0, "ok")
         /\ output_written
    /\ \A p \in 1..Len(log) :
         (IsStage(log[p]) /\ log[p].res # "ok") =>
             /\ p = Len(log)
             /\ pc = "returned"
             /\ result.tag = "Err"
    /\ \A p, q \in 1..Len(log) :
         (IsStage(log[p]) /\ log[p].ev = log[q].ev /\ log[p].arg = log[q].arg) => p = q

C7_Witness ==
    /\ pc = "returned"
    /\ result = Err("FFmpeg final concat exited with error", -1)
    /\ total_clips = 2
    /\ log[Len(log)] = Event("mux", 0, "nonzero")

\* C8 as stated: the delivered percentages never decrease, lie in 0..100,
\* those of the trim stage satisfy 0 < p <= 50, and a successful run's last
\* one is 100.
C8_Original ==
    /\ \A j \in 1..Len(Emitted) : Emitted[j].arg \in 0..100
    /\ \A j \in 1..(Len(Emitted) - 1) : Emitted[j].arg <= Emitted[j + 1].arg
    /\ \A j \in 1..Len(Emitted) :
         j <= total_clips => 0 < Emitted[j].arg /\ Emitted[j].arg <= 50
    /\ result.tag = "Ok" => Emitted[Len(Emitted)].arg = 100

\* C8 (amended): the delivered percentages never decrease, lie in 0..100,
\* those of the trim stage satisfy 0 <= p <= 50, and are positive when
\* there are at most 49 clips; a successful run's last one is 100.
C8_Amended ==
    /\ \A j \in 1..Len(Emitted) : Emitted[j].arg \in 0..100
    /\ \A j \in 1..(Len(Emitted) - 1) : Emitted[j].arg <= Emitted[j + 1].arg
    /\ \A j \in 1..Len(Emitted) :
         j <= total_clips =>
            /\ 0 <= Emitted[j].arg
            /\ Emitted[j].arg <= 50
            /\ total_clips <= 49 => 0 < Emitted[j].arg
    /\ result.tag = "Ok" => Emitted[Len(Emitted)].arg = 100

C8_Witness ==
    /\ result.tag = "Ok"
    /\ total_clips = 50
    /\ Len(Emitted) = 51
    /\ Emitted[1].arg = 0
    /\ Emitted[50].arg = 49
    /\ Emitted[51].arg = 100

\* C9 as stated: the percentage delivered after the k-th trim is
\* 50k/(N+1) rounded to the nearest integer.
C9_Original ==
    \A k \in 1..Len(Emitted) :
        k <= total_clips =>
            Emitted[k].arg = (100 * k + total_clips + 1) \div (2 * (total_clips + 1))

\* C9 (amended): the percentage delivered after the k-th trim is 50k/(N+1)
\* truncated toward zero, and one less (28) where 50k/(N+1) is exactly 29,
\* the f64 product being just below 29 there.
C9_Amended ==
    \A k \in 1..Len(Emitted) :
        k <= total_clips =>
            Emitted[k].arg = ((50 * k) \div (total_clips + 1))
                             - (IF 50 * k = 29 * (total_clips + 1) THEN 1 ELSE 0)

C9_Witness ==
    /\ total_clips = 49
    /\ Len(Emitted) >= 30
    /\ Emitted[28].arg = 28
    /\ Emitted[29].arg = 28
    /\ Emitted[30].arg = 30

\* C10: the 100% event is attempted only after the mux exited zero, is
\* delivered at most once, exactly once in a run that returns the output
\* path and not at all in any other run.
C10_HundredOnceAfterMux ==
    LET hundred == {p \in 1..Len(log) : log[p] = Event("emit", 100, "ok")} IN
    /\ \A p \in 1..Len(log) :
         (log[p].ev = "emit" /\ log[p].arg = 100) =>
             \E q \in 1..(p - 1) : log[q] = Event("mux", 0, "ok")
    /\ Cardinality(hundred) <= 1
    /\ result.tag = "Ok" => Cardinality(hundred) = 1
    /\ result.tag # "Ok" => hundred = {}

C10_Witness ==
    /\ result.tag = "Ok"
    /\ total_clips = 2
    /\ log[Len(log)] = Event("emit", 100, "ok")
    /\ \E q \in 1..Len(log) : log[q] = Event("mux", 0, "ok")

\* C11: an emit that returns an error never ends the run: the run goes on
\* and neither unwinds nor returns an error because of it.
C11_EmitFailureHarmless ==
    \A p \in 1..Len(log) :
        (log[p].ev = "emit" /\ log[p].res = "fail") =>
            /\ pc # "panicked"
            /\ result.tag # "panic"

\* C12: the manifest in the workspace, once written, has one line per clip
\* and its line j names the segment file of clip j - 1 (clip_{j-1}.ts).
C12_ManifestOrder ==
    (\E p \in 1..Len(log) : log[p] = Event("write_concat", 0, "ok"))
    => \/ ~concat_file.exists
       \/ /\ Len(concat_file.lines) = total_clips
          /\ \A j \in 1..total_clips :
               /\ concat_file.lines[j] = <<"file", "rvj_export", "clip", j - 1, "ts">>
               /\ log[CHOOSE p \in 1..Len(log) : log[p].ev = "trim" /\ log[p].arg = j - 1]
                    = Event("trim", j - 1, "ok")

C12_Witness ==
    /\ pc = "mux"
    /\ total_clips = 2
    /\ concat_file = [exists |-> TRUE,
                      lines |-> << <<"file", "rvj_export", "clip", 0, "ts">>,
                                   <<"file", "rvj_export", "clip", 1, "ts">> >>]

\* C14: a failed remove_dir_all changes nothing in the outcome: the run
\* never returns an error after it, goes on to the 100% event, and returns
\* the output path once that event is delivered.
C14_CleanupFailureSwallowed ==
    \A p \in 1..Len(log) :
        log[p] = Event("remove_dir_all", 0, "fail") =>
            /\ result.tag # "Err"
            /\ pc \in {"emit_done", "returned", "panicked"}
            /\ pc = "returned" =>
                 /\ result = Ok
                 /\ log[Len(log)] = Event("emit", 100, "ok")
            /\ pc = "panicked" => log[Len(log)] = Event("emit", 100, "fail")

C14_Witness ==
    /\ pc = "returned"
    /\ result = Ok
    /\ temp_dir_exists
    /\ total_clips = 2
    /\ Len(log) >= 2
    /\ log[Len(log) - 1] = Event("remove_dir_all", 0, "fail")
    /\ log[Len(log)] = Event("emit", 100, "ok")

\* C15: for a request with clips, the mux process is started only with the
\* parent directory of the output path in place.
C15_OutputDirBeforeMux ==
    (total_clips >= 1 /\ \E p \in 1..Len(log) : log[p].ev = "mux") => output_dir_exists

\* C16: every line of the in-memory manifest was appended after the trim of
\* its clip exited zero; when the mux is about to start and when it has
\* started, every segment the manifest file names is in the workspace; the
\* workspace is deleted only after the mux exited zero.
C16_SegmentsAtMuxTime ==
    /\ \A j \in 1..Len(concat_content) :
         \E p \in 1..Len(log) : log[p] = Event("trim", concat_content[j][4], "ok")
    /\ pc \in {"mux", "cleanup"} =>
         /\ concat_file.exists
         /\ Len(concat_file.lines) = total_clips
         /\ \A j \in 1..Len(concat_file.lines) : concat_file.lines[j][4] \in segments
    /\ \A p \in 1..Len(log) :
         log[p].ev = "remove_dir_all" =>
             /\ p > 1
             /\ log[p - 1] = Event("mux", 0, "ok")

C16_Witness ==
    /\ pc = "cleanup"
    /\ total_clips = 2
    /\ segments = {0, 1}
    /\ log[Len(log)] = Event("mux", 0, "ok")

\* C17: the mux starts only after concat.txt was created and written, with
\* the file holding the whole in-memory manifest; a failed create or write
\* is the last call of the run, which returns the matching error.
C17_ManifestBeforeMux ==
    /\ \A p \in 1..Len(log) :
         log[p].ev = "mux" =>
             /\ p > 2
             /\ log[p - 2] = Event("create_concat", 0, "ok")
             /\ log[p - 1] = Event("write_concat", 0, "ok")
    /\ pc = "mux" => concat_file = [exists |-> TRUE, lines |-> concat_content]
    /\ \A p \in 1..Len(log) :
         (log[p].ev \in {"create_concat", "write_concat"} /\ log[p].res = "fail") =>
             /\ p = Len(log)
             /\ pc = "returned"
             /\ result = Err(IF log[p].ev = "create_concat"
                             THEN "Failed to create concat file"
                             ELSE "Failed to write concat file", -1)

C17_Witness ==
    /\ pc = "returned"
    /\ total_clips = 2
    /\ result = Err("Failed to write concat file", -1)
    /\ log[Len(log)] = Event("write_concat", 0, "fail")
    /\ concat_file = [exists |-> TRUE, lines |-> <<>>]

\* C18 as stated: the 100% event is never emitted after the workspace has
\* been released.
C18_Original ==
    \A p \in 1..Len(log) :
        (log[p].ev = "emit" /\ log[p].arg = 100) =>
            \A q \in 1..(p - 1) : log[q].ev # "remove_dir_all"

\* C18 (amended): the last three calls of a successful run are the mux
\* exiting zero, then remove_dir_all, then the 100% event; the 100% event
\* is never emitted before the workspace has been released.
C18_Amended ==
    \A p \in 1..Len(log) :
        (log[p].ev = "emit" /\ log[p].arg = 100) =>
            /\ p = Len(log)
            /\ p > 2
            /\ log[p - 1].ev = "remove_dir_all"
            /\ log[p - 2] = Event("mux", 0, "ok")

C18_Witness ==
    /\ result = Ok
    /\ total_clips = 2
    /\ ~temp_dir_exists
    /\ SubSeq(log, Len(log) - 2, Len(log))
         = <<Event("mux", 0, "ok"), Event("remove_dir_all", 0, "ok"), Event("emit", 100, "ok")>>

\* the segment files a run has produced and still needs: those of the
\* clips it has trimmed, until it has passed its mux
SelfProduced ==
    IF pc \in {"trim", "emit", "create_concat", "write_concat", "mux"}
    THEN 0..(i - 1) \cup (IF pc = "emit" THEN {i} ELSE {})
    ELSE {}
OtherProduced ==
    IF other.pc \in {"trim", "create_concat", "write_concat", "mux"}
    THEN 0..(other.i - 1)
    ELSE {}

\* C13: with two invocations in flight, the segment files and the manifest
\* a run has written stay in place and stay its own until it has finished
\* with them: the other run neither overwrites nor deletes them.
C13_NoSharedWorkspace ==
    /\ \A k \in SelfProduced : k \in segments /\ k \in own_segments
    /\ \A k \in OtherProduced : k \in segments /\ k \in other_segments
    /\ pc = "mux" => concat_file.exists /\ concat_writer = "self"
    /\ other.pc = "mux" => concat_file.exists /\ concat_writer = "other"

\* C19: started over the workspace of an earlier run, the run acquires it
\* without error and without creating it, and the manifest it hands to the
\* mux is its own file with exactly its N lines, each naming a segment
\* this run wrote.
C19_StaleWorkspace ==
    /\ result.msg # "Failed to create temp dir"
    /\ \A p \in 1..Len(log) : log[p].ev # "create_dir_all"
    /\ pc \in {"mux", "cleanup"} =>
         /\ concat_writer = "self"
         /\ Len(concat_file.lines) = total_clips
         /\ \A j \in 1..total_clips :
              /\ concat_file.lines[j] = <<"file", "rvj_export", "clip", j - 1, "ts">>
              /\ (j - 1) \in own_segments

C19_Witness ==
    /\ pc = "mux"
    /\ total_clips = 2
    /\ segments = {0, 1, 2}
    /\ own_segments = {0, 1}
    /\ concat_writer = "self"
    /\ Len(concat_file.lines) = 2

====
